---- MODULE Spec2Model ----
(***************************************************************************)
(* Model of the library management system of src/main.py: the classes     *)
(* Book, User and Library.  Python objects are modelled by value, except  *)
(* Book objects, which live in a heap (ref -> Book) because both the      *)
(* catalog (Library.books) and the patrons' borrowed_books lists refer to *)
(* the same Book object.  User objects are never removed or replaced, so  *)
(* a User object is identified by its card id.                            *)
(***************************************************************************)
EXTENDS Integers, Sequences, FiniteSets, TLC

VARIABLES books, heap, users, borrow_records, call, ret, found, out

vars == <<books, heap, users, borrow_records, call, ret, found, out>>

\* ---------------------------------------------------------------- bounds
NumIsbns == 2
NumCards == 2
MaxRecords == 2
NumStock == 6
StockLoans == 5
MaxNewRecords == 1

\* ------------------------------------------------------ Python values
True == "True"
False == "False"
None == "None"

PyBool(b) == IF b THEN True ELSE False

\* What a call prints is modelled by the kind of its message (the print
\* statement reached); Silent: the call prints nothing.
Silent == ""

\* ------------------------------------------------------ input domains
Digits == <<"1", "2", "3", "4", "5", "6", "7", "8", "9">>

Isbn(n) == <<"X", Digits[n]>>

\* card ids are not taken apart by the program: whole strings
CardIds == <<"001", "002", "003", "004">>

CardId(n) == CardIds[n]

Isbns == {Isbn(n) : n \in 1..NumIsbns}

Cards == {CardId(n) : n \in 1..NumCards}

Titles == {<<"P", "y">>, <<"G", "o">>}

Authors == {<<"E", "m">>}

Names == {"Zhang", "Li"}

\* the (name, card id) pairs register_user is called with: every card under the
\* first name, the first card under every name
Registrations ==
    {<<"Zhang", c>> : c \in Cards} \cup {<<n, CardId(1)>> : n \in Names}

Keywords == {<<>>, <<"p">>, <<"X", "1">>, <<"M">>}

\* ------------------------------------------------------ dict (insertion ordered)
Range(s) == {s[k] : k \in DOMAIN s}

Keys(d) == {d[k].key : k \in DOMAIN d}

Get(d, key) == (CHOOSE e \in Range(d) : e.key = key).val

Put(d, key, val) ==
    IF key \in Keys(d)
    THEN [k \in DOMAIN d |-> IF d[k].key = key THEN [key |-> key, val |-> val] ELSE d[k]]
    ELSE Append(d, [key |-> key, val |-> val])

Del(d, key) == SelectSeq(d, LAMBDA e : e.key # key)

\* ------------------------------------------------------ list helpers
\* a remove that drops the head of the list, whatever x is
ListRemove_head(l, x) == SubSeq(l, 2, Len(l))

\* list.remove(x): removes the first occurrence of x
ListRemove(l, x) ==
    LET k == CHOOSE j \in DOMAIN l : l[j] = x /\ \A m \in 1..(j - 1) : l[m] # x
    IN  SubSeq(l, 1, k - 1) \o SubSeq(l, k + 1, Len(l))

\* ------------------------------------------------------ class Book
Book(title, author, isbn) ==
    [title |-> title, author |-> author, isbn |-> isbn,
     is_borrowed |-> FALSE, borrower |-> None]

\* a borrow that does not look at is_borrowed
Book_borrow_unchecked(self, user) ==
    [self |-> [self EXCEPT !.is_borrowed = TRUE, !.borrower = user], ret |-> True]

\* Book.borrow(self, user): the new value of self and the returned value
Book_borrow(self, user) ==
    IF ~self.is_borrowed
    THEN [self |-> [self EXCEPT !.is_borrowed = TRUE, !.borrower = user], ret |-> True]
    ELSE [self |-> self, ret |-> False]

\* a return that forgets to clear the borrower
Book_return_book_keeps_borrower(self) ==
    IF self.is_borrowed
    THEN [self |-> [self EXCEPT !.is_borrowed = FALSE], ret |-> True]
    ELSE [self |-> self, ret |-> False]

Book_return_book(self) ==
    IF self.is_borrowed
    THEN [self |-> [self EXCEPT !.is_borrowed = FALSE, !.borrower = None], ret |-> True]
    ELSE [self |-> self, ret |-> False]

Book_is_available(self) == PyBool(~self.is_borrowed)

\* ------------------------------------------------------ class User
MaxBorrowLimit == 5

User(name, card_id) ==
    [name |-> name, card_id |-> card_id, borrowed_books |-> <<>>,
     max_borrow_limit |-> MaxBorrowLimit]

\* an off-by-one limit test
User_can_borrow_more_inclusive(self) ==
    PyBool(Len(self.borrowed_books) <= self.max_borrow_limit)

\* a limit test that always lets the user borrow
User_can_borrow_more_always(self) == True

User_can_borrow_more(self) == PyBool(Len(self.borrowed_books) < self.max_borrow_limit)

\* a borrow that takes the book before it tests the limit
User_borrow_book_limit_last(self, book, h) ==
    LET b == Book_borrow(h[book], self.card_id)
    IN  IF b.ret # True
        THEN [self |-> self, heap |-> h, ret |-> False, out |-> "book already borrowed"]
        ELSE IF User_can_borrow_more(self) # True
        THEN [self |-> self, heap |-> [h EXCEPT ![book] = b.self], ret |-> False,
              out |-> "limit reached"]
        ELSE [self |-> [self EXCEPT !.borrowed_books = Append(@, book)],
              heap |-> [h EXCEPT ![book] = b.self], ret |-> True, out |-> "borrowed"]

\* a borrow that appends the book whatever Book.borrow returned
User_borrow_book_appends_always(self, book, h) ==
    IF User_can_borrow_more(self) # True
    THEN [self |-> self, heap |-> h, ret |-> False, out |-> "limit reached"]
    ELSE LET b == Book_borrow(h[book], self.card_id)
         IN  [self |-> [self EXCEPT !.borrowed_books = Append(@, book)],
              heap |-> [h EXCEPT ![book] = b.self], ret |-> b.ret,
              out |-> IF b.ret = True THEN "borrowed" ELSE "book already borrowed"]

\* a borrow that puts the book at the front of borrowed_books
User_borrow_book_prepends(self, book, h) ==
    IF User_can_borrow_more(self) # True
    THEN [self |-> self, heap |-> h, ret |-> False, out |-> "limit reached"]
    ELSE LET b == Book_borrow(h[book], self.card_id)
         IN  IF b.ret = True
             THEN [self |-> [self EXCEPT !.borrowed_books = <<book>> \o @],
                   heap |-> [h EXCEPT ![book] = b.self], ret |-> True,
                   out |-> "borrowed"]
             ELSE [self |-> self, heap |-> h, ret |-> False,
                   out |-> "book already borrowed"]

\* User.borrow_book(self, book): book is a reference into the heap h
User_borrow_book(self, book, h) ==
    IF User_can_borrow_more(self) # True
    THEN [self |-> self, heap |-> h, ret |-> False, out |-> "limit reached"]
    ELSE LET b == Book_borrow(h[book], self.card_id)
         IN  IF b.ret = True
             THEN [self |-> [self EXCEPT !.borrowed_books = Append(@, book)],
                   heap |-> [h EXCEPT ![book] = b.self], ret |-> True,
                   out |-> "borrowed"]
             ELSE [self |-> self, heap |-> [h EXCEPT ![book] = b.self], ret |-> False,
                   out |-> "book already borrowed"]

\* a return that leaves the book in borrowed_books
User_return_book_keeps_list(self, book, h) ==
    IF book \in Range(self.borrowed_books)
    THEN LET b == Book_return_book(h[book])
         IN  IF b.ret = True
             THEN [self |-> self, heap |-> [h EXCEPT ![book] = b.self], ret |-> True,
                   out |-> "returned"]
             ELSE [self |-> self, heap |-> h, ret |-> None, out |-> Silent]
    ELSE [self |-> self, heap |-> h, ret |-> False, out |-> "not borrowed by user"]

\* a return that does not test whether this user holds the book
User_return_book_any_holder(self, book, h) ==
    LET b == Book_return_book(h[book])
    IN  IF b.ret = True
        THEN [self |-> [self EXCEPT !.borrowed_books =
                                       SelectSeq(@, LAMBDA x : x # book)],
              heap |-> [h EXCEPT ![book] = b.self], ret |-> True, out |-> "returned"]
        ELSE [self |-> self, heap |-> h, ret |-> False, out |-> "not borrowed by user"]

\* User.return_book(self, book): falls off the end (returns None) when the
\* book is in borrowed_books but Book.return_book() fails
User_return_book(self, book, h) ==
    IF book \in Range(self.borrowed_books)
    THEN LET b == Book_return_book(h[book])
         IN  IF b.ret = True
             THEN [self |-> [self EXCEPT !.borrowed_books = ListRemove(@, book)],
                   heap |-> [h EXCEPT ![book] = b.self], ret |-> True,
                   out |-> "returned"]
             ELSE [self |-> self, heap |-> [h EXCEPT ![book] = b.self], ret |-> None,
                   out |-> Silent]
    ELSE [self |-> self, heap |-> h, ret |-> False, out |-> "not borrowed by user"]

\* ------------------------------------------------------ strings
\* str.lower() on the characters the input domains use
Lower(c) ==
    CASE c = "P" -> "p"
      [] c = "G" -> "g"
      [] c = "E" -> "e"
      [] c = "M" -> "m"
      [] c = "X" -> "x"
      [] OTHER -> c

StrLower(s) == [k \in DOMAIN s |-> Lower(s[k])]

\* Python's `sub in s` on strings
StrIn(sub, s) ==
    \E k \in 0..(Len(s) - Len(sub)) : SubSeq(s, k + 1, k + Len(sub)) = sub

\* ------------------------------------------------------ heap of Book objects
\* a new object gets a reference no live object has
NewRef(h) ==
    CHOOSE r \in 1..(Cardinality(DOMAIN h) + 1) :
        r \notin DOMAIN h /\ \A q \in 1..(r - 1) : q \in DOMAIN h

\* the references a Library can still reach
Reachable(bks, usrs) ==
    {bks[k].val : k \in DOMAIN bks}
        \cup UNION {Range(usrs[k].val.borrowed_books) : k \in DOMAIN usrs}

\* objects nothing refers to any more are reclaimed
Collect(h, bks, usrs) == [r \in DOMAIN h \cap Reachable(bks, usrs) |-> h[r]]

\* ------------------------------------------------------ class Library
Library ==
    [books |-> <<>>, heap |-> << >>, users |-> <<>>, borrow_records |-> <<>>]

BorrowTime == "now"

\* an add that does not test for a duplicate isbn
Library_add_book_overwrites(self, title, author, isbn) ==
    LET ref == NewRef(self.heap)
    IN  [self |-> [self EXCEPT
                     !.heap = [r \in DOMAIN self.heap \cup {ref} |->
                                 IF r = ref THEN Book(title, author, isbn)
                                 ELSE self.heap[r]],
                     !.books = Put(self.books, isbn, ref)],
         ret |-> True, out |-> "book added"]

Library_add_book(self, title, author, isbn) ==
    IF isbn \in Keys(self.books)
    THEN [self |-> self, ret |-> False, out |-> "isbn exists"]
    ELSE LET ref == NewRef(self.heap)
         IN  [self |-> [self EXCEPT
                          !.heap = [r \in DOMAIN self.heap \cup {ref} |->
                                      IF r = ref THEN Book(title, author, isbn)
                                      ELSE self.heap[r]],
                          !.books = Put(self.books, isbn, ref)],
              ret |-> True, out |-> "book added"]

\* a remove that does not test whether the book is on loan
Library_remove_book_unchecked(self, isbn) ==
    IF isbn \notin Keys(self.books)
    THEN [self |-> self, ret |-> False, out |-> "unknown book"]
    ELSE LET bks == Del(self.books, isbn)
         IN  [self |-> [self EXCEPT !.books = bks,
                                    !.heap = Collect(self.heap, bks, self.users)],
              ret |-> True, out |-> "book removed"]

Library_remove_book(self, isbn) ==
    IF isbn \notin Keys(self.books)
    THEN [self |-> self, ret |-> False, out |-> "unknown book"]
    ELSE LET book == Get(self.books, isbn)
         IN  IF self.heap[book].is_borrowed
             THEN [self |-> self, ret |-> False, out |-> "book is borrowed"]
             ELSE LET bks == Del(self.books, isbn)
                  IN  [self |-> [self EXCEPT
                                   !.books = bks,
                                   !.heap = Collect(self.heap, bks, self.users)],
                       ret |-> True, out |-> "book removed"]

\* a registration that does not test for a duplicate card id
Library_register_user_overwrites(self, name, card_id) ==
    [self |-> [self EXCEPT !.users = Put(self.users, card_id, User(name, card_id))],
     ret |-> True, out |-> "user registered"]

Library_register_user(self, name, card_id) ==
    IF card_id \in Keys(self.users)
    THEN [self |-> self, ret |-> False, out |-> "card id exists"]
    ELSE [self |-> [self EXCEPT !.users = Put(self.users, card_id, User(name, card_id))],
          ret |-> True, out |-> "user registered"]

\* a borrow that writes no record
Library_borrow_book_no_record(self, user_card_id, book_isbn) ==
    IF user_card_id \notin Keys(self.users)
    THEN [self |-> self, ret |-> False, out |-> "unknown user"]
    ELSE IF book_isbn \notin Keys(self.books)
    THEN [self |-> self, ret |-> False, out |-> "unknown book"]
    ELSE LET user == Get(self.users, user_card_id)
             book == Get(self.books, book_isbn)
             r == User_borrow_book(user, book, self.heap)
         IN  [self |-> [self EXCEPT !.users = Put(self.users, user_card_id, r.self),
                                    !.heap = r.heap],
              ret |-> r.ret, out |-> r.out]

\* a borrow that writes its record whatever User.borrow_book returned
Library_borrow_book_logs_failures(self, user_card_id, book_isbn) ==
    IF user_card_id \notin Keys(self.users)
    THEN [self |-> self, ret |-> False, out |-> "unknown user"]
    ELSE IF book_isbn \notin Keys(self.books)
    THEN [self |-> self, ret |-> False, out |-> "unknown book"]
    ELSE LET user == Get(self.users, user_card_id)
             book == Get(self.books, book_isbn)
             r == User_borrow_book(user, book, self.heap)
             record == [user_name |-> user.name,
                        user_card_id |-> user_card_id,
                        book_title |-> self.heap[book].title,
                        book_isbn |-> book_isbn,
                        borrow_time |-> BorrowTime]
         IN  [self |-> [self EXCEPT !.users = Put(self.users, user_card_id, r.self),
                                    !.heap = r.heap,
                                    !.borrow_records = Append(@, record)],
              ret |-> r.ret, out |-> r.out]

Library_borrow_book(self, user_card_id, book_isbn) ==
    IF user_card_id \notin Keys(self.users)
    THEN [self |-> self, ret |-> False, out |-> "unknown user"]
    ELSE IF book_isbn \notin Keys(self.books)
    THEN [self |-> self, ret |-> False, out |-> "unknown book"]
    ELSE LET user == Get(self.users, user_card_id)
             book == Get(self.books, book_isbn)
             r == User_borrow_book(user, book, self.heap)
             after == [self EXCEPT !.users = Put(self.users, user_card_id, r.self),
                                   !.heap = r.heap]
         IN  IF r.ret = True
             THEN LET record == [user_name |-> user.name,
                                 user_card_id |-> user_card_id,
                                 book_title |-> self.heap[book].title,
                                 book_isbn |-> book_isbn,
                                 borrow_time |-> BorrowTime]
                  IN  [self |-> [after EXCEPT !.borrow_records = Append(@, record)],
                       ret |-> True, out |-> r.out]
             ELSE [self |-> after, ret |-> False, out |-> r.out]

\* a return that drops the value User.return_book returned
Library_return_book_no_return(self, user_card_id, book_isbn) ==
    IF user_card_id \notin Keys(self.users)
    THEN [self |-> self, ret |-> False, out |-> "unknown user"]
    ELSE IF book_isbn \notin Keys(self.books)
    THEN [self |-> self, ret |-> False, out |-> "unknown book"]
    ELSE LET user == Get(self.users, user_card_id)
             book == Get(self.books, book_isbn)
             r == User_return_book(user, book, self.heap)
         IN  [self |-> [self EXCEPT !.users = Put(self.users, user_card_id, r.self),
                                    !.heap = r.heap],
              ret |-> None, out |-> r.out]

\* a return that looks the book up before the user
Library_return_book_book_first(self, user_card_id, book_isbn) ==
    IF book_isbn \notin Keys(self.books)
    THEN [self |-> self, ret |-> False, out |-> "unknown book"]
    ELSE IF user_card_id \notin Keys(self.users)
    THEN [self |-> self, ret |-> False, out |-> "unknown user"]
    ELSE LET user == Get(self.users, user_card_id)
             book == Get(self.books, book_isbn)
             r == User_return_book(user, book, self.heap)
         IN  [self |-> [self EXCEPT !.users = Put(self.users, user_card_id, r.self),
                                    !.heap = r.heap],
              ret |-> r.ret, out |-> r.out]

Library_return_book(self, user_card_id, book_isbn) ==
    IF user_card_id \notin Keys(self.users)
    THEN [self |-> self, ret |-> False, out |-> "unknown user"]
    ELSE IF book_isbn \notin Keys(self.books)
    THEN [self |-> self, ret |-> False, out |-> "unknown book"]
    ELSE LET user == Get(self.users, user_card_id)
             book == Get(self.books, book_isbn)
             r == User_return_book(user, book, self.heap)
         IN  [self |-> [self EXCEPT !.users = Put(self.users, user_card_id, r.self),
                                    !.heap = r.heap],
              ret |-> r.ret, out |-> r.out]

\* a check that answers False for a book it does not know
Library_check_book_availability_unknown_false(self, book_isbn) ==
    IF book_isbn \notin Keys(self.books)
    THEN [self |-> self, ret |-> False, out |-> "unknown book"]
    ELSE LET book == self.heap[Get(self.books, book_isbn)]
             is_available == Book_is_available(book)
         IN  [self |-> self, ret |-> is_available,
              out |-> IF is_available = True THEN "book is available"
                      ELSE "book is borrowed"]

Library_check_book_availability(self, book_isbn) ==
    IF book_isbn \notin Keys(self.books)
    THEN [self |-> self, ret |-> None, out |-> "unknown book"]
    ELSE LET book == self.heap[Get(self.books, book_isbn)]
             is_available == Book_is_available(book)
         IN  [self |-> self, ret |-> is_available,
              out |-> IF is_available = True THEN "book is available"
                      ELSE "book is borrowed"]

\* the loop of search_book over self.books.items(), from position k on
RECURSIVE SearchFrom(_, _, _)
SearchFrom(self, keyword, k) ==
    IF k > Len(self.books) THEN <<>>
    ELSE LET isbn == self.books[k].key
             book == self.books[k].val
             hit == \/ StrIn(keyword, StrLower(self.heap[book].title))
                    \/ StrIn(keyword, StrLower(self.heap[book].author))
                    \/ StrIn(keyword, StrLower(isbn))
         IN  (IF hit THEN <<book>> ELSE <<>>) \o SearchFrom(self, keyword, k + 1)

\* a search that does not lower the keyword
Library_search_book_keyword_as_typed(self, keyword) ==
    [self |-> self, ret |-> SearchFrom(self, keyword, 1), out |-> Silent]

Library_search_book(self, keyword) ==
    [self |-> self, ret |-> SearchFrom(self, StrLower(keyword), 1), out |-> Silent]

\* ------------------------------------------------------ the program's state
Lib == [books |-> books, heap |-> heap, users |-> users, borrow_records |-> borrow_records]

\* the Library after a call, and what the call returned
Becomes(r) ==
    /\ books' = r.self.books
    /\ heap' = r.self.heap
    /\ users' = r.self.users
    /\ borrow_records' = r.self.borrow_records

Init ==
    /\ books = Library.books
    /\ heap = Library.heap
    /\ users = Library.users
    /\ borrow_records = Library.borrow_records
    /\ call = [op |-> "Library"]
    /\ ret = None
    /\ found = <<>>
    /\ out = Silent

add_book(title, author, isbn) ==
    \E r \in {Library_add_book(Lib, title, author, isbn)} :
        /\ Becomes(r)
        /\ ret' = r.ret
        /\ call' = [op |-> "add_book", title |-> title, author |-> author, isbn |-> isbn]
        /\ found' = <<>>
        /\ out' = r.out

remove_book(isbn) ==
    \E r \in {Library_remove_book(Lib, isbn)} :
        /\ Becomes(r)
        /\ ret' = r.ret
        /\ call' = [op |-> "remove_book", isbn |-> isbn]
        /\ found' = <<>>
        /\ out' = r.out

register_user(name, card_id) ==
    \E r \in {Library_register_user(Lib, name, card_id)} :
        /\ Becomes(r)
        /\ ret' = r.ret
        /\ call' = [op |-> "register_user", name |-> name, card_id |-> card_id]
        /\ found' = <<>>
        /\ out' = r.out

\* cap bounds the length of the log: a borrow that would grow the log beyond
\* it is not taken
borrow_book(user_card_id, book_isbn, cap) ==
    \E r \in {Library_borrow_book(Lib, user_card_id, book_isbn)} :
        /\ Len(r.self.borrow_records) <= cap
        /\ Becomes(r)
        /\ ret' = r.ret
        /\ call' = [op |-> "borrow_book", user_card_id |-> user_card_id,
                    book_isbn |-> book_isbn]
        /\ found' = <<>>
        /\ out' = r.out

return_book(user_card_id, book_isbn) ==
    \E r \in {Library_return_book(Lib, user_card_id, book_isbn)} :
        /\ Becomes(r)
        /\ ret' = r.ret
        /\ call' = [op |-> "return_book", user_card_id |-> user_card_id,
                    book_isbn |-> book_isbn]
        /\ found' = <<>>
        /\ out' = r.out

check_book_availability(book_isbn) ==
    \E r \in {Library_check_book_availability(Lib, book_isbn)} :
        /\ Becomes(r)
        /\ ret' = r.ret
        /\ call' = [op |-> "check_book_availability", book_isbn |-> book_isbn]
        /\ found' = <<>>
        /\ out' = r.out

\* search_book returns a list: ret records that, found holds the list
search_book(keyword) ==
    \E r \in {Library_search_book(Lib, keyword)} :
        /\ Becomes(r)
        /\ ret' = "list"
        /\ found' = r.ret
        /\ out' = r.out
        /\ call' = [op |-> "search_book", keyword |-> keyword]

AddBook == \E t \in Titles, a \in Authors, i \in Isbns : add_book(t, a, i)

RemoveBook == \E i \in Isbns : remove_book(i)

RegisterUser == \E reg \in Registrations : register_user(reg[1], reg[2])

BorrowBook == \E c \in Cards, i \in Isbns : borrow_book(c, i, MaxRecords)

ReturnBook == \E c \in Cards, i \in Isbns : return_book(c, i)

CheckBookAvailability == \E i \in Isbns : check_book_availability(i)

SearchBook == \E k \in Keywords : search_book(k)

Next ==
    \/ AddBook
    \/ RemoveBook
    \/ RegisterUser
    \/ BorrowBook
    \/ ReturnBook
    \/ CheckBookAvailability
    \/ SearchBook

Spec == Init /\ [][Next]_vars

\* ------------------------------------------------------ a stocked library
\* The library as the drivers (test_library_system, interactive_menu) set it up
\* before lending starts: NumStock books, every card registered; then the first
\* card borrows the first StockLoans books.
StockTitle(n) == IF n % 2 = 1 THEN <<"P", "y">> ELSE <<"G", "o">>

StockName(n) == IF n = 1 THEN "Zhang" ELSE "Li"

RECURSIVE WithBooks(_, _)
WithBooks(lib, n) ==
    IF n = 0 THEN lib
    ELSE Library_add_book(WithBooks(lib, n - 1), StockTitle(n), <<"E", "m">>, Isbn(n)).self

RECURSIVE WithUsers(_, _)
WithUsers(lib, n) ==
    IF n = 0 THEN lib
    ELSE Library_register_user(WithUsers(lib, n - 1), StockName(n), CardId(n)).self

RECURSIVE WithLoans(_, _)
WithLoans(lib, n) ==
    IF n = 0 THEN lib
    ELSE Library_borrow_book(WithLoans(lib, n - 1), CardId(1), Isbn(n)).self

StockedLibrary == WithLoans(WithUsers(WithBooks(Library, NumStock), NumCards), StockLoans)

StockIsbns == {Isbn(n) : n \in 1..NumStock}

\* the books the stocked library's catalog loses and gains
ChurnIsbns == {Isbn(NumStock)}

InitStocked ==
    /\ books = StockedLibrary.books
    /\ heap = StockedLibrary.heap
    /\ users = StockedLibrary.users
    /\ borrow_records = StockedLibrary.borrow_records
    /\ call = [op |-> "Library"]
    /\ ret = None
    /\ found = <<>>
    /\ out = Silent

StockedAddBook == \E t \in Titles, a \in Authors, i \in ChurnIsbns : add_book(t, a, i)

StockedRemoveBook == \E i \in ChurnIsbns : remove_book(i)

\* the cards borrow_book is called with: the registered ones and one that is not
StockCards == Cards \cup {CardId(NumCards + 1)}

StockedBorrowBook ==
    \E c \in StockCards, i \in StockIsbns :
        borrow_book(c, i, StockLoans + MaxNewRecords)

StockedReturnBook == \E c \in Cards, i \in StockIsbns : return_book(c, i)

StockedCheckBookAvailability == \E i \in StockIsbns : check_book_availability(i)

NextStocked ==
    \/ StockedAddBook
    \/ StockedRemoveBook
    \/ RegisterUser
    \/ StockedBorrowBook
    \/ StockedReturnBook
    \/ StockedCheckBookAvailability
    \/ SearchBook

SpecStocked == InitStocked /\ [][NextStocked]_vars

\* ------------------------------------------------------ calls on the objects
\* Book and User are public classes: besides the Library's methods a caller
\* can call Book.return_book() and User.return_book(book) on the objects the
\* Library holds (library.books[isbn], library.users[card_id]).
book_return_book(isbn) ==
    /\ isbn \in Keys(books)
    /\ \E b \in {Book_return_book(heap[Get(books, isbn)])} :
          /\ heap' = [heap EXCEPT ![Get(books, isbn)] = b.self]
          /\ ret' = b.ret
    /\ UNCHANGED <<books, users, borrow_records>>
    /\ call' = [op |-> "Book.return_book", isbn |-> isbn]
    /\ found' = <<>>
    /\ out' = Silent

user_return_book(card_id, isbn) ==
    /\ card_id \in Keys(users)
    /\ isbn \in Keys(books)
    /\ \E r \in {User_return_book(Get(users, card_id), Get(books, isbn), heap)} :
          /\ users' = Put(users, card_id, r.self)
          /\ heap' = r.heap
          /\ ret' = r.ret
          /\ out' = r.out
    /\ UNCHANGED <<books, borrow_records>>
    /\ call' = [op |-> "User.return_book", card_id |-> card_id, isbn |-> isbn]
    /\ found' = <<>>

BookReturnBook == \E i \in Isbns : book_return_book(i)

UserReturnBook == \E c \in Cards, i \in Isbns : user_return_book(c, i)

NextObjects ==
    \/ AddBook
    \/ RegisterUser
    \/ BorrowBook
    \/ BookReturnBook
    \/ UserReturnBook

SpecObjects == Init /\ [][NextObjects]_vars

\* ------------------------------------------------------ concurrent callers
\* NumThreads callers run Library.borrow_book on one Library, each call in the
\* steps its code takes: the lookups and the limit test, Book.borrow, the append
\* to borrowed_books, the append to borrow_records.  Here call holds the calls
\* in progress, call.threads[t], and whether the callers serialise their calls
\* with a lock, call.lock; ret[t] is what thread t's last call returned.
NumThreads == 2

MaxRaceRecords == 2

Threads == 1..NumThreads

Idle == [pc |-> "idle", user_card_id |-> "", book_isbn |-> <<>>]

\* the library the callers share: every book free but the first patron's, who
\* is one book short of the limit
RaceLibrary ==
    WithLoans(WithUsers(WithBooks(Library, NumStock), NumCards), MaxBorrowLimit - 1)

\* the books still free in RaceLibrary
RaceIsbns == {Isbn(n) : n \in MaxBorrowLimit..NumStock}

InitRace ==
    /\ books = RaceLibrary.books
    /\ heap = RaceLibrary.heap
    /\ users = RaceLibrary.users
    /\ borrow_records = RaceLibrary.borrow_records
    /\ call \in [lock : BOOLEAN, threads : {[t \in Threads |-> Idle]}]
    /\ ret = [t \in Threads |-> None]
    /\ found = <<>>
    /\ out = Silent

\* with the lock a thread runs only while no other thread is inside a call
MayRun(t) == call.lock => \A u \in Threads \ {t} : call.threads[u].pc = "idle"

Goes(t, pc) == call' = [call EXCEPT !.threads[t].pc = pc]

Returns(t, value) ==
    /\ call' = [call EXCEPT !.threads[t] = Idle]
    /\ ret' = [ret EXCEPT ![t] = value]

\* thread t calls borrow_book(user_card_id, book_isbn)
race_call(t, user_card_id, book_isbn) ==
    /\ MayRun(t)
    /\ call.threads[t].pc = "idle"
    /\ Len(borrow_records)
           + Cardinality({u \in Threads : call.threads[u].pc # "idle"})
         < Len(RaceLibrary.borrow_records) + MaxRaceRecords
    /\ call' = [call EXCEPT !.threads[t] =
                   [pc |-> "lookup", user_card_id |-> user_card_id,
                    book_isbn |-> book_isbn]]
    /\ UNCHANGED <<books, heap, users, borrow_records, ret, found, out>>

\* the lookups of Library.borrow_book and the limit test of User.borrow_book
race_lookup(t) ==
    /\ MayRun(t)
    /\ call.threads[t].pc = "lookup"
    /\ IF \/ call.threads[t].user_card_id \notin Keys(users)
          \/ call.threads[t].book_isbn \notin Keys(books)
          \/ User_can_borrow_more(Get(users, call.threads[t].user_card_id)) # True
       THEN Returns(t, False)
       ELSE Goes(t, "book.borrow") /\ ret' = ret
    /\ UNCHANGED <<books, heap, users, borrow_records, found, out>>

\* book.borrow(self): the test of is_borrowed and the two assignments
race_book_borrow(t) ==
    /\ MayRun(t)
    /\ call.threads[t].pc = "book.borrow"
    /\ \E b \in {Book_borrow(heap[Get(books, call.threads[t].book_isbn)],
                              call.threads[t].user_card_id)} :
          /\ heap' = [heap EXCEPT ![Get(books, call.threads[t].book_isbn)] = b.self]
          /\ IF b.ret = True
             THEN Goes(t, "append") /\ ret' = ret
             ELSE Returns(t, False)
    /\ UNCHANGED <<books, users, borrow_records, found, out>>

\* self.borrowed_books.append(book)
race_append(t) ==
    /\ MayRun(t)
    /\ call.threads[t].pc = "append"
    /\ users' = Put(users, call.threads[t].user_card_id,
                    [Get(users, call.threads[t].user_card_id) EXCEPT
                        !.borrowed_books =
                            Append(@, Get(books, call.threads[t].book_isbn))])
    /\ Goes(t, "record")
    /\ UNCHANGED <<books, heap, borrow_records, ret, found, out>>

\* self.borrow_records.append(record); return True
race_record(t) ==
    /\ MayRun(t)
    /\ call.threads[t].pc = "record"
    /\ borrow_records' =
           Append(borrow_records,
                  [user_name |-> Get(users, call.threads[t].user_card_id).name,
                   user_card_id |-> call.threads[t].user_card_id,
                   book_title |-> heap[Get(books, call.threads[t].book_isbn)].title,
                   book_isbn |-> call.threads[t].book_isbn,
                   borrow_time |-> BorrowTime])
    /\ Returns(t, True)
    /\ UNCHANGED <<books, heap, users, found, out>>

RaceCall == \E t \in Threads, c \in Cards, i \in RaceIsbns : race_call(t, c, i)

RaceLookup == \E t \in Threads : race_lookup(t)

RaceBookBorrow == \E t \in Threads : race_book_borrow(t)

RaceAppend == \E t \in Threads : race_append(t)

RaceRecord == \E t \in Threads : race_record(t)

NextRace ==
    \/ RaceCall
    \/ RaceLookup
    \/ RaceBookBorrow
    \/ RaceAppend
    \/ RaceRecord

SpecRace == InitRace /\ [][NextRace]_vars

\* ====================================================== properties
\* the Library's own state: everything but the record of the last call
Core == <<books, heap, users, borrow_records>>

BookAt(isbn) == heap[Get(books, isbn)]

UserAt(card_id) == Get(users, card_id)

OnLoan(isbn) == isbn \in Keys(books) /\ BookAt(isbn).is_borrowed

Holds(card_id, isbn) ==
    /\ card_id \in Keys(users)
    /\ isbn \in Keys(books)
    /\ Get(books, isbn) \in Range(UserAt(card_id).borrowed_books)

\* C1: in every reachable state every catalog book is marked borrowed exactly
\* when its borrower is set, and is_available() is the negation of is_borrowed.
C1_LoanStateMatchesHolder ==
    \A k \in DOMAIN books :
        LET b == heap[books[k].val]
        IN  /\ b.is_borrowed <=> b.borrower # None
            /\ Book_is_available(b) = True <=> ~b.is_borrowed

\* a book has just been returned while another book is still on loan
C1_Witness ==
    /\ call.op = "return_book"
    /\ ret = True
    /\ ~BookAt(call.book_isbn).is_borrowed
    /\ BookAt(call.book_isbn).borrower = None
    /\ \E i \in Keys(books) : BookAt(i).is_borrowed /\ BookAt(i).borrower # None

\* C2: no registered patron ever holds more than max_borrow_limit (5) books.
C2_LimitNeverExceeded ==
    \A k \in DOMAIN users :
        /\ users[k].val.max_borrow_limit = 5
        /\ Len(users[k].val.borrowed_books) <= users[k].val.max_borrow_limit

\* a borrow has just brought a patron to exactly the limit
C2_Witness ==
    /\ call.op = "borrow_book"
    /\ ret = True
    /\ Len(UserAt(call.user_card_id).borrowed_books) = 5

\* C3: for every patron p and every book b, b is in p.borrowed_books exactly
\* when b.borrower is p.
C3_LinksMutuallyConsistent ==
    \A k \in DOMAIN users :
        \A r \in DOMAIN heap :
            r \in Range(users[k].val.borrowed_books) <=> heap[r].borrower = users[k].key

\* two patrons each hold a book, the second loan just made
C3_Witness ==
    /\ call.op = "borrow_book"
    /\ ret = True
    /\ \E c \in Keys(users), i \in Keys(books) :
          /\ c # call.user_card_id
          /\ Holds(c, i)
          /\ BookAt(i).borrower = c
    /\ Holds(call.user_card_id, call.book_isbn)
    /\ BookAt(call.book_isbn).borrower = call.user_card_id

\* C4: every catalog book's borrower, if set, is a registered patron, and every
\* book in a patron's borrowed_books is the book the catalog stores under its isbn.
C4_ReferencesStayInsideLibrary ==
    /\ \A k \in DOMAIN books :
          heap[books[k].val].borrower # None
              => heap[books[k].val].borrower \in Keys(users)
    /\ \A k \in DOMAIN users :
          \A r \in Range(users[k].val.borrowed_books) :
              /\ heap[r].isbn \in Keys(books)
              /\ Get(books, heap[r].isbn) = r

\* an isbn that was lent before has been removed and added again while another
\* book is on loan
C4_Witness ==
    /\ call.op = "add_book"
    /\ ret = True
    /\ \E k \in DOMAIN borrow_records : borrow_records[k].book_isbn = call.isbn
    /\ \E c \in Keys(users), i \in Keys(books) : i # call.isbn /\ Holds(c, i)

\* C5: borrow_book by a registered patron of a catalog book that is on loan
\* returns False and changes neither the book, nor any patron, nor the log.
C5_BorrowOfLentBookFails ==
    [][(/\ call'.op = "borrow_book"
        /\ call'.user_card_id \in Keys(users)
        /\ OnLoan(call'.book_isbn))
           => (ret' = False /\ UNCHANGED Core)]_vars

\* a second patron has just been refused a book that the first one holds
C5_Witness ==
    /\ call.op = "borrow_book"
    /\ ret = False
    /\ call.user_card_id \in Keys(users)
    /\ OnLoan(call.book_isbn)
    /\ BookAt(call.book_isbn).borrower # call.user_card_id
    /\ Len(borrow_records) >= 1

\* C6: return_book by a registered patron of a catalog book that is not in the
\* patron's borrowed_books returns False and changes nothing.
C6_ReturnOfBookNotHeldFails ==
    [][(/\ call'.op = "return_book"
        /\ call'.user_card_id \in Keys(users)
        /\ call'.book_isbn \in Keys(books)
        /\ ~Holds(call'.user_card_id, call'.book_isbn))
           => (ret' = False /\ UNCHANGED Core)]_vars

\* a patron has just tried to return a book that is on loan to someone else
C6_Witness ==
    /\ call.op = "return_book"
    /\ ret = False
    /\ call.user_card_id \in Keys(users)
    /\ OnLoan(call.book_isbn)
    /\ ~Holds(call.user_card_id, call.book_isbn)
    /\ BookAt(call.book_isbn).borrower # call.user_card_id

\* C7: from any reachable state in which borrow_book(card, isbn) succeeds, a
\* return_book(card, isbn) right after it succeeds and gives back the state
\* before the borrow, but for the log, which has grown by one record.
C7_BorrowThenReturnRestores ==
    \A c \in Cards, i \in Isbns :
        LET b == Library_borrow_book(Lib, c, i)
        IN  b.ret = True =>
                LET r == Library_return_book(b.self, c, i)
                    book == r.self.heap[Get(r.self.books, i)]
                IN  /\ r.ret = True
                    /\ ~book.is_borrowed
                    /\ book.borrower = None
                    /\ Get(r.self.users, c).borrowed_books = UserAt(c).borrowed_books
                    /\ r.self.books = books
                    /\ r.self.users = users
                    /\ r.self.heap = heap
                    /\ Len(r.self.borrow_records) = Len(borrow_records) + 1
                    /\ SubSeq(r.self.borrow_records, 1, Len(borrow_records))
                           = borrow_records

\* a patron who keeps another book has just returned the book of the last loan
C7_Witness ==
    /\ call.op = "return_book"
    /\ ret = True
    /\ Len(borrow_records) >= 1
    /\ borrow_records[Len(borrow_records)].user_card_id = call.user_card_id
    /\ borrow_records[Len(borrow_records)].book_isbn = call.book_isbn
    /\ ~BookAt(call.book_isbn).is_borrowed
    /\ Len(UserAt(call.user_card_id).borrowed_books) >= 1

\* C8: the log only grows at its end; a successful borrow_book appends exactly
\* one record with the borrower's name and card id and the book's title and
\* isbn; every other call leaves the log as it is.
C8_LogAppendOnly ==
    [][IF call'.op = "borrow_book" /\ ret' = True
       THEN /\ call'.user_card_id \in Keys(users)
            /\ call'.book_isbn \in Keys(books)
            /\ borrow_records' =
                   Append(borrow_records,
                          [user_name |-> UserAt(call'.user_card_id).name,
                           user_card_id |-> call'.user_card_id,
                           book_title |-> BookAt(call'.book_isbn).title,
                           book_isbn |-> call'.book_isbn,
                           borrow_time |-> BorrowTime])
       ELSE borrow_records' = borrow_records]_vars

\* a second record has just been appended behind a first one
C8_Witness ==
    /\ call.op = "borrow_book"
    /\ ret = True
    /\ Len(borrow_records) = 2
    /\ borrow_records[2].user_card_id = call.user_card_id
    /\ borrow_records[2].book_isbn = call.book_isbn
    /\ borrow_records[2].user_name = UserAt(call.user_card_id).name
    /\ borrow_records[2].book_title = BookAt(call.book_isbn).title

\* C9: borrow_book by a patron who holds max_borrow_limit books fails for every
\* catalog book, on loan or not, with the limit message, and changes nothing.
C9_BorrowAtLimitFails ==
    [][(/\ call'.op = "borrow_book"
        /\ call'.user_card_id \in Keys(users)
        /\ call'.book_isbn \in Keys(books)
        /\ Len(UserAt(call'.user_card_id).borrowed_books) = 5)
           => (ret' = False /\ out' = "limit reached" /\ UNCHANGED Core)]_vars

\* a patron with five books has just been refused a sixth, available one
C9_Witness ==
    /\ call.op = "borrow_book"
    /\ ret = False
    /\ call.user_card_id \in Keys(users)
    /\ Len(UserAt(call.user_card_id).borrowed_books) = 5
    /\ call.book_isbn \in Keys(books)
    /\ ~BookAt(call.book_isbn).is_borrowed
    /\ BookAt(call.book_isbn).borrower = None

\* C10: remove_book fails and changes nothing when the isbn is unknown or the
\* book is on loan; it succeeds, deleting just that book, exactly when the isbn
\* is known and the book is available.
C10_RemoveOnlyAvailableBooks ==
    [][call'.op = "remove_book" =>
          IF call'.isbn \in Keys(books) /\ ~BookAt(call'.isbn).is_borrowed
          THEN /\ ret' = True
               /\ books' = Del(books, call'.isbn)
               /\ call'.isbn \notin Keys(books')
               /\ users' = users
               /\ borrow_records' = borrow_records
          ELSE ret' = False /\ UNCHANGED Core]_vars

\* the removal of a lent book has just been refused: the book is still in the
\* catalog, on loan, and in its holder's borrowed_books
C10_Witness ==
    /\ call.op = "remove_book"
    /\ ret = False
    /\ OnLoan(call.isbn)
    /\ Holds(BookAt(call.isbn).borrower, call.isbn)

\* C11: add_book with an isbn already in the catalog and register_user with a
\* card id already registered return False and change nothing (the catalog
\* keeps exactly one book for the isbn); no call removes a registered patron.
C11_DuplicateKeysRejected ==
    [][/\ (call'.op = "add_book" /\ call'.isbn \in Keys(books))
              => /\ ret' = False
                 /\ UNCHANGED Core
                 /\ Cardinality({k \in DOMAIN books' : books'[k].key = call'.isbn}) = 1
       /\ (call'.op = "register_user" /\ call'.card_id \in Keys(users))
              => (ret' = False /\ UNCHANGED Core)
       /\ Keys(users) \subseteq Keys(users')]_vars

\* a second add_book under another title has just been refused for an isbn
\* whose book is on loan
C11_Witness ==
    /\ call.op = "add_book"
    /\ ret = False
    /\ OnLoan(call.isbn)
    /\ BookAt(call.isbn).title # call.title
    /\ Holds(BookAt(call.isbn).borrower, call.isbn)

\* C12: borrow_book and return_book look the patron up first: an unregistered
\* card id gives the unknown-user outcome whether or not the isbn exists, the
\* unknown-book outcome is given exactly for a registered card id and an
\* absent isbn; neither changes books, patrons or log.
C12_PatronCheckedBeforeBook ==
    [][call'.op \in {"borrow_book", "return_book"} =>
          /\ call'.user_card_id \notin Keys(users)
                 => (ret' = False /\ out' = "unknown user" /\ UNCHANGED Core)
          /\ out' = "unknown book"
                 <=> (call'.user_card_id \in Keys(users)
                        /\ call'.book_isbn \notin Keys(books))
          /\ out' = "unknown book" => (ret' = False /\ UNCHANGED Core)]_vars

\* a return with neither the card id nor the isbn known has just been refused
\* as unknown user, in a library that has a patron and a book
C12_Witness ==
    /\ call.op = "return_book"
    /\ ret = False
    /\ out = "unknown user"
    /\ call.user_card_id \notin Keys(users)
    /\ call.book_isbn \notin Keys(books)
    /\ users # <<>>
    /\ books # <<>>

\* C13: check_book_availability changes nothing and returns None exactly for
\* an isbn not in the catalog, True exactly for a catalog book not on loan,
\* False exactly for a catalog book on loan.
C13_AvailabilityThreeValued ==
    [][call'.op = "check_book_availability" =>
          /\ UNCHANGED Core
          /\ ret' \in {None, True, False}
          /\ ret' = None <=> call'.book_isbn \notin Keys(books)
          /\ ret' = True <=> (call'.book_isbn \in Keys(books)
                                /\ ~BookAt(call'.book_isbn).is_borrowed)
          /\ ret' = False <=> OnLoan(call'.book_isbn)]_vars

\* the check has just answered None for an isbn that was lent once and has
\* been removed since
C13_Witness ==
    /\ call.op = "check_book_availability"
    /\ ret = None
    /\ call.book_isbn \notin Keys(books)
    /\ \E k \in DOMAIN borrow_records : borrow_records[k].book_isbn = call.book_isbn

\* C15: a book is in the borrowed_books lists of all patrons together at most
\* once.
C15_BookHeldAtMostOnce ==
    \A r \in DOMAIN heap :
        Cardinality(UNION {{<<k, j>> : j \in {n \in DOMAIN users[k].val.borrowed_books :
                                                  users[k].val.borrowed_books[n] = r}} :
                           k \in DOMAIN users}) <= 1

\* the holder of a book has just tried to borrow it a second time
C15_Witness ==
    /\ call.op = "borrow_book"
    /\ ret = False
    /\ out = "book already borrowed"
    /\ Holds(call.user_card_id, call.book_isbn)
    /\ \E c \in Keys(users) : c # call.user_card_id

\* the keyword occurs in s, letters compared without their case
OccursIgnoringCase(keyword, s) ==
    \E k \in 0..(Len(s) - Len(keyword)) :
        \A j \in 1..Len(keyword) : Lower(s[k + j]) = Lower(keyword[j])

\* C16: search_book returns exactly the catalog books whose title, author or
\* isbn contains the keyword ignoring case, in catalog order, every book for
\* the empty keyword, and changes nothing; add_book puts a new book last.
C16_SearchReturnsMatchesInOrder ==
    [][/\ call'.op = "search_book" =>
              LET hits == SelectSeq(books, LAMBDA e :
                              \/ OccursIgnoringCase(call'.keyword, heap[e.val].title)
                              \/ OccursIgnoringCase(call'.keyword, heap[e.val].author)
                              \/ OccursIgnoringCase(call'.keyword, e.key))
              IN  /\ UNCHANGED Core
                  /\ ret' = "list"
                  /\ found' = [k \in DOMAIN hits |-> hits[k].val]
                  /\ call'.keyword = <<>> => Len(found') = Len(books)
       /\ (call'.op = "add_book" /\ ret' = True) =>
              /\ Len(books') = Len(books) + 1
              /\ SubSeq(books', 1, Len(books)) = books
              /\ books'[Len(books')].key = call'.isbn]_vars

\* an upper-case keyword has just found, by its isbn alone, the book that was
\* removed and added again behind the other book
C16_Witness ==
    /\ call.op = "search_book"
    /\ call.keyword = <<"X", "1">>
    /\ Len(books) = 2
    /\ books[2].key = Isbn(1)
    /\ found = <<books[2].val>>
    /\ \E k \in DOMAIN borrow_records :
          /\ borrow_records[k].book_isbn = Isbn(1)
          /\ borrow_records[k].book_title # heap[books[2].val].title

\* C17: borrow_book returns True exactly when the card id is registered, the
\* isbn is in the catalog, the patron holds fewer than 5 books and the book is
\* available; it then marks that book on loan to that patron and appends it to
\* the end of borrowed_books, and changes no other book or patron.
C17_BorrowSucceedsExactlyWhen ==
    [][call'.op = "borrow_book" =>
          LET c == call'.user_card_id
              i == call'.book_isbn
              ok == /\ c \in Keys(users)
                    /\ i \in Keys(books)
                    /\ Len(UserAt(c).borrowed_books) < 5
                    /\ ~BookAt(i).is_borrowed
          IN  /\ ret' \in {True, False}
              /\ ret' = True <=> ok
              /\ ok => /\ books' = books
                       /\ heap' = [heap EXCEPT ![Get(books, i)] =
                                      [@ EXCEPT !.is_borrowed = TRUE, !.borrower = c]]
                       /\ users' = Put(users, c,
                                       [UserAt(c) EXCEPT !.borrowed_books =
                                           Append(@, Get(books, i))])]_vars

\* a borrow has just put a fifth book behind the four the patron kept
C17_Witness ==
    /\ call.op = "borrow_book"
    /\ ret = True
    /\ Len(UserAt(call.user_card_id).borrowed_books) = 5
    /\ UserAt(call.user_card_id).borrowed_books[5] = Get(books, call.book_isbn)
    /\ BookAt(call.book_isbn).borrower = call.user_card_id

\* C18: return_book returns True exactly when the card id is registered, the
\* isbn is in the catalog and the book is in the patron's borrowed_books, so
\* always for the book's holder, and False otherwise; it never returns None.
C18_ReturnSucceedsExactlyWhen ==
    [][call'.op = "return_book" =>
          /\ ret' \in {True, False}
          /\ ret' = True <=> Holds(call'.user_card_id, call'.book_isbn)
          /\ (OnLoan(call'.book_isbn)
                /\ BookAt(call'.book_isbn).borrower = call'.user_card_id)
                 => ret' = True]_vars

\* the holder has just returned a book while the other patron keeps one
C18_Witness ==
    /\ call.op = "return_book"
    /\ ret = True
    /\ out = "returned"
    /\ call.book_isbn \in Keys(books)
    /\ ~OnLoan(call.book_isbn)
    /\ \E c \in Keys(users), i \in Keys(books) : c # call.user_card_id /\ Holds(c, i)

\* C19: for every catalog book on loan the log has a record with its isbn, and
\* the last such record carries the card id of the book's holder.
C19_LastRecordNamesHolder ==
    \A k \in DOMAIN books :
        heap[books[k].val].is_borrowed =>
            \E j \in DOMAIN borrow_records :
                /\ borrow_records[j].book_isbn = books[k].key
                /\ \A n \in (j + 1)..Len(borrow_records) :
                      borrow_records[n].book_isbn # books[k].key
                /\ borrow_records[j].user_card_id = heap[books[k].val].borrower

\* a book lent, returned, removed, added again under another title and lent to
\* the other patron
C19_Witness ==
    /\ Len(borrow_records) = 2
    /\ borrow_records[1].book_isbn = borrow_records[2].book_isbn
    /\ borrow_records[1].book_title # borrow_records[2].book_title
    /\ borrow_records[1].user_card_id # borrow_records[2].user_card_id
    /\ OnLoan(borrow_records[2].book_isbn)
    /\ BookAt(borrow_records[2].book_isbn).borrower = borrow_records[2].user_card_id

\* C14: User.return_book(book) with the book in borrowed_books but not marked
\* on loan reports failure by returning False and leaves the book and the
\* patron's borrowed_books as they are.
C14_InconsistentReturnFailsCleanly ==
    [][(/\ call'.op = "User.return_book"
        /\ Holds(call'.card_id, call'.isbn)
        /\ ~BookAt(call'.isbn).is_borrowed)
           => (ret' = False /\ UNCHANGED Core)]_vars

\* what the code does in that case: nothing changes, nothing is printed and
\* the call returns None
C14_InconsistentReturnYieldsNone ==
    [][(/\ call'.op = "User.return_book"
        /\ Holds(call'.card_id, call'.isbn)
        /\ ~BookAt(call'.isbn).is_borrowed)
           => (ret' = None /\ out' = Silent /\ UNCHANGED Core)]_vars

\* C20: when the callers serialise their borrow_book calls no patron ever
\* holds more than the limit of 5 books; without the lock the steps of two
\* calls interleave and a patron can come to hold more (the witness).
C20_LimitHoldsWhenCallsAreAtomic ==
    call.lock =>
        \A k \in DOMAIN users :
            Len(users[k].val.borrowed_books) <= users[k].val.max_borrow_limit

\* without the lock a patron who held 4 books holds 6: both calls passed the
\* limit test before either appended
C20_Witness ==
    /\ ~call.lock
    /\ \E k \in DOMAIN users :
          /\ Len(users[k].val.borrowed_books) > 5
          /\ users[k].val.max_borrow_limit = 5

====
